---------------------------- MODULE Spec2Model ----------------------------
(***************************************************************************)
(* Interface registry of smcroute (src/ifvc.c): the vector of interface    *)
(* records, its synchronisation with the interfaces the OS reports         *)
(* (iface_init, iface_update), the lookup by name (iface_find_by_name) and *)
(* the pattern iterators (iface_match_by_name, iface_match_vif_by_name,    *)
(* iface_match_mif_by_name), the lookups by ifindex and by vif, the        *)
(* enumeration of all records (iface_iterator) and iface_exit.             *)
(*                                                                         *)
(* A string is a sequence of one-character strings.  A position in the     *)
(* vector is 1-based here (C index + 1); position 0 stands for the C NULL  *)
(* pointer wherever a function returns a struct iface pointer.             *)
(***************************************************************************)
EXTENDS Integers, Sequences, FiniteSets, TLC

VARIABLES
    iface_list,        \* the backing array, one slot per allocated element
    num_ifaces_alloc,  \* number of allocated slots
    num_ifaces,        \* number of slots in use
    ifaddrs,           \* what getifaddrs() reports now: the OS's interface list
    state,             \* the caller-owned struct ifmatch: [iter, match_count]
    last,              \* history: the operation that ran last, see Last
    calls,             \* history: the calls made on `state` since
                       \*          iface_match_init, and what has happened since
    iterator_i,        \* the static size_t i of iface_iterator
    walk,              \* history: what iface_iterator returned to each of its
                       \*          callers since the caller's iface_iterator(1)
    HAVE_IPV6_MULTICAST_ROUTING   \* the build: TRUE when the macro is defined

storeVars  == <<iface_list, num_ifaces_alloc, num_ifaces>>
cursorVars == <<state, calls>>
iterVars   == <<iterator_i, walk>>
buildVars  == <<HAVE_IPV6_MULTICAST_ROUTING>>
vars == <<iface_list, num_ifaces_alloc, num_ifaces, ifaddrs, state, last, calls,
          iterator_i, walk, HAVE_IPV6_MULTICAST_ROUTING>>

----------------------------------------------------------------------------
(* Bounds of the model *)

MaxIfAddrs == 2     \* entries the OS's interface list grows to
MaxIfaces  == 3     \* interfaces present when the matcher is followed
MaxGrown   == 2     \* records a vector has at most after iface_update(0) added to it
MaxVif     == 1     \* the registration subsystem hands out vifs 0..MaxVif
MaxCalls   == 4     \* matcher calls followed on one cursor

(* Program constants.  UINT_MAX is 2^32 - 1 in the program; the model checker's
   integers end at 2^31 - 1, and it is used only as a length no string reaches. *)

UINT_MAX          == 2147483647
IFNAMSIZ          == 16
DEFAULT_THRESHOLD == 1

----------------------------------------------------------------------------
(* Strings *)

NULL == <<"(null)">>      \* the C null pointer, where a string is expected

eth0   == <<"e", "t", "h", "0">>
eth1   == <<"e", "t", "h", "1">>
eth01  == <<"e", "t", "h", "0", "1">>
wlan0  == <<"w", "l", "a", "n", "0">>
eth0_1 == <<"e", "t", "h", "0", ":", "1">>

Min(a, b) == IF a < b THEN a ELSE b

\* The character at C index i - 1, "\\0" at and beyond the terminator.
CharAt(s, i) == IF i <= Len(s) THEN s[i] ELSE "NUL"

\* strchr(s, c): the position of the first c in s, 0 when there is none.
StrChr(s, c) ==
    IF \E i \in 1..Len(s) : s[i] = c
    THEN CHOOSE i \in 1..Len(s) : s[i] = c /\ \A j \in 1..(i - 1) : s[j] # c
    ELSE 0

\* strcmp(a, b) == 0
StrEq(a, b) == a = b

\* strncmp(a, b, n) == 0: the first n characters agree, or both strings end
\* before that and agree up to their end.
StrNEq(a, b, n) ==
    \A i \in 1..Min(n, Min(Len(a), Len(b)) + 1) : CharAt(a, i) = CharAt(b, i)

\* strlcpy(dst, src, size): at most size - 1 characters are copied.
StrLCpy(s, size) == SubSeq(s, 1, Min(Len(s), size - 1))

\* A StripAlias that leaves the alias suffix on the name.
StripAliasKeep(s) == s

\* nm = strdup(ifname); ptr = strchr(nm, ':'); if (ptr) *ptr = 0;
StripAlias(s) ==
    IF StrChr(s, ":") > 0 THEN SubSeq(s, 1, StrChr(s, ":") - 1) ELSE s

----------------------------------------------------------------------------
(* Records *)

\* A calloc'ed or memset slot.
ZeroIface ==
    [name |-> <<>>, inaddr |-> 0, flags |-> 0, ifindex |-> 0,
     vif |-> 0, mif |-> 0, mrdisc |-> 0, threshold |-> 0]

\* What realloc() may leave in the slots it adds: anything.
JunkIfaces ==
    { ZeroIface,
      [name |-> <<"?">>, inaddr |-> 9, flags |-> 9, ifindex |-> 9,
       vif |-> 9, mif |-> 9, mrdisc |-> 9, threshold |-> 9] }

\* The IPv4 addresses the OS reports in the model, two so that an interface
\* can be reported with another address than its record has; 0 is "no
\* address" (!inaddr.s_addr) and is no interface's address.
InetAddrs == {1, 2}

NoAddr == [sa_family |-> "NULL",      s_addr |-> 0]   \* ifa_addr == NULL
Packet == [sa_family |-> "AF_PACKET", s_addr |-> 0]
Inet(a) == [sa_family |-> "AF_INET",  s_addr |-> a]

\* if_nametoindex(): the OS's index of a name.
if_nametoindex(n) ==
    CASE n = eth0   -> 2
      [] n = eth1   -> 3
      [] n = eth01  -> 4
      [] n = wlan0  -> 5
      [] n = eth0_1 -> 6
      [] OTHER      -> 0

\* The flags the OS reports for an interface.
IfFlags(n) ==
    CASE n = eth0   -> 67
      [] n = eth1   -> 66
      [] n = eth01  -> 65
      [] n = wlan0  -> 3
      [] n = eth0_1 -> 1
      [] OTHER      -> 0

IfAddr(n, a) == [ifa_name |-> n, ifa_flags |-> IfFlags(n), ifa_addr |-> a]

\* The getifaddrs() entries of the model: every name with no address, with a
\* link-layer address, and with each IPv4 address.
IfAddrs(names) ==
    { IfAddr(n, a) : n \in names,
                     a \in {NoAddr, Packet} \cup { Inet(x) : x \in InetAddrs } }

----------------------------------------------------------------------------
(* iface_find_by_name *)

RECURSIVE FindLoopFirstMatch(_, _, _, _, _)
\* A FindLoop that returns the first record of the name, with a vif or not.
FindLoopFirstMatch(list, num, nm, i, candidate) ==
    IF i > num THEN candidate
    ELSE IF StrEq(nm, list[i].name)
         THEN i
         ELSE FindLoopFirstMatch(list, num, nm, i + 1, candidate)

RECURSIVE FindLoopStripsStored(_, _, _, _, _)
\* A FindLoop that cuts the stored name at ':' as well before it compares.
FindLoopStripsStored(list, num, nm, i, candidate) ==
    IF i > num THEN candidate
    ELSE IF StrEq(nm, StripAlias(list[i].name))
         THEN IF list[i].vif >= 0
              THEN i
              ELSE FindLoopStripsStored(list, num, nm, i + 1, i)
         ELSE FindLoopStripsStored(list, num, nm, i + 1, candidate)

RECURSIVE FindLoop(_, _, _, _, _)
\* for (i = 0; i < num_ifaces; i++) { ... candidate = iface; }
FindLoop(list, num, nm, i, candidate) ==
    IF i > num THEN candidate
    ELSE IF StrEq(nm, list[i].name)
         THEN IF list[i].vif >= 0
              THEN i
              ELSE FindLoop(list, num, nm, i + 1, i)
         ELSE FindLoop(list, num, nm, i + 1, candidate)

\* The position of the record found, 0 for NULL.
iface_find_by_name(list, num, ifname) ==
    IF ifname = NULL THEN 0
    ELSE FindLoop(list, num, StripAlias(ifname), 1, 0)

----------------------------------------------------------------------------
(* The pattern iterators *)

\* unsigned int arithmetic of struct ifmatch
Inc(c) == IF c = UINT_MAX THEN 0 ELSE c + 1
Dec(c) == IF c = 0 THEN UINT_MAX ELSE c - 1

ifname_is_wildcard(ifname) ==
    ifname # NULL /\ Len(ifname) > 0 /\ ifname[Len(ifname)] = "+"

RECURSIVE MatchLoop(_, _, _, _, _)
\* for (; state->iter < num_ifaces; state->iter++) { ... }
MatchLoop(list, num, ifname, match_len, st) ==
    IF st.iter < num
    THEN IF StrNEq(ifname, list[st.iter + 1].name, match_len)
         THEN [iface |-> st.iter + 1,
               state |-> [iter |-> Inc(st.iter), match_count |-> Inc(st.match_count)]]
         ELSE MatchLoop(list, num, ifname, match_len, [st EXCEPT !.iter = Inc(@)])
    ELSE [iface |-> 0, state |-> st]

\* An iface_match_by_name that compares the '+' of a wildcard as well.
iface_match_by_name_PlusCompared(list, num, ifname, st) ==
    IF ifname = NULL THEN [iface |-> 0, state |-> st]
    ELSE MatchLoop(list, num, ifname,
                   IF ifname_is_wildcard(ifname) THEN Len(ifname) ELSE UINT_MAX,
                   st)

\* An iface_match_by_name that compares over the length of the pattern.
iface_match_by_name_PatternLength(list, num, ifname, st) ==
    IF ifname = NULL THEN [iface |-> 0, state |-> st]
    ELSE MatchLoop(list, num, ifname,
                   IF ifname_is_wildcard(ifname) THEN Len(ifname) - 1 ELSE Len(ifname),
                   st)

\* An iface_match_by_name that takes the empty pattern for one that matches
\* every name.
iface_match_by_name_EmptyMatchesAll(list, num, ifname, st) ==
    IF ifname = NULL THEN [iface |-> 0, state |-> st]
    ELSE MatchLoop(list, num, ifname,
                   IF ifname_is_wildcard(ifname) THEN Len(ifname) - 1
                   ELSE IF ifname = <<>> THEN 0 ELSE UINT_MAX,
                   st)

\* The record found (its position, 0 for NULL) and the cursor as it is left.
iface_match_by_name(list, num, ifname, st) ==
    IF ifname = NULL THEN [iface |-> 0, state |-> st]
    ELSE MatchLoop(list, num, ifname,
                   IF ifname_is_wildcard(ifname) THEN Len(ifname) - 1 ELSE UINT_MAX,
                   st)

iface_get_vif(list, iface) == IF iface = 0 THEN -1 ELSE list[iface].vif

RECURSIVE iface_match_vif_by_name_NoDecrement(_, _, _, _)
\* An iface_match_vif_by_name that keeps the matches it skips in match_count.
iface_match_vif_by_name_NoDecrement(list, num, ifname, st) ==
    LET r == iface_match_by_name(list, num, ifname, st)
    IN  IF r.iface = 0
        THEN [vif |-> -1, found |-> 0, state |-> r.state]
        ELSE IF iface_get_vif(list, r.iface) >= 0
             THEN [vif |-> iface_get_vif(list, r.iface), found |-> r.iface,
                   state |-> r.state]
             ELSE iface_match_vif_by_name_NoDecrement(list, num, ifname, r.state)

RECURSIVE iface_match_vif_by_name(_, _, _, _)
\* The vif returned, the record written to *found (0: not written) and the
\* cursor as it is left.
iface_match_vif_by_name(list, num, ifname, st) ==
    LET r == iface_match_by_name(list, num, ifname, st)
    IN  IF r.iface = 0
        THEN [vif |-> -1, found |-> 0, state |-> r.state]
        ELSE IF iface_get_vif(list, r.iface) >= 0
             THEN [vif |-> iface_get_vif(list, r.iface), found |-> r.iface,
                   state |-> r.state]
             ELSE iface_match_vif_by_name(list, num, ifname,
                      [r.state EXCEPT !.match_count = Dec(@)])

\* Without HAVE_IPV6_MULTICAST_ROUTING the function returns -1 whatever the
\* record is.
iface_get_mif(list, iface) ==
    IF ~HAVE_IPV6_MULTICAST_ROUTING THEN -1
    ELSE IF iface = 0 THEN -1 ELSE list[iface].mif

RECURSIVE iface_match_mif_by_name_NoDecrement(_, _, _, _)
\* An iface_match_mif_by_name that keeps the matches it skips in match_count.
iface_match_mif_by_name_NoDecrement(list, num, ifname, st) ==
    LET r == iface_match_by_name(list, num, ifname, st)
    IN  IF r.iface = 0
        THEN [mif |-> -1, found |-> 0, state |-> r.state]
        ELSE IF iface_get_mif(list, r.iface) >= 0
             THEN [mif |-> iface_get_mif(list, r.iface), found |-> r.iface,
                   state |-> r.state]
             ELSE iface_match_mif_by_name_NoDecrement(list, num, ifname, r.state)

RECURSIVE iface_match_mif_by_name(_, _, _, _)
\* The mif returned, the record written to *found (0: not written) and the
\* cursor as it is left.
iface_match_mif_by_name(list, num, ifname, st) ==
    LET r == iface_match_by_name(list, num, ifname, st)
    IN  IF r.iface = 0
        THEN [mif |-> -1, found |-> 0, state |-> r.state]
        ELSE IF iface_get_mif(list, r.iface) >= 0
             THEN [mif |-> iface_get_mif(list, r.iface), found |-> r.iface,
                   state |-> r.state]
             ELSE iface_match_mif_by_name(list, num, ifname,
                      [r.state EXCEPT !.match_count = Dec(@)])

----------------------------------------------------------------------------
(* The lookups by ifindex and by vif, and the enumeration *)

RECURSIVE FindIndexLoop(_, _, _, _)
\* for (i = 0; i < num_ifaces; i++) if (iface->ifindex == ifindex) return iface;
FindIndexLoop(list, num, ifindex, i) ==
    IF i > num THEN 0
    ELSE IF list[i].ifindex = ifindex THEN i
         ELSE FindIndexLoop(list, num, ifindex, i + 1)

iface_find(list, num, ifindex) == FindIndexLoop(list, num, ifindex, 1)

RECURSIVE FindVifLoop(_, _, _, _)
\* for (...) if (iface->vif >= 0 && iface->vif == vif) return iface;
FindVifLoop(list, num, vif, i) ==
    IF i > num THEN 0
    ELSE IF list[i].vif >= 0 /\ list[i].vif = vif THEN i
         ELSE FindVifLoop(list, num, vif, i + 1)

iface_find_by_vif(list, num, vif) == FindVifLoop(list, num, vif, 1)

\* An iface_iterator that starts over at every call.
iface_iterator_AlwaysFirst(num, i, first) ==
    IF 0 >= num THEN [iface |-> 0, i |-> 0] ELSE [iface |-> 1, i |-> 1]

\* An iface_iterator that goes on from where it is, whatever first says.
iface_iterator_IgnoresFirst(num, i, first) ==
    IF i >= num THEN [iface |-> 0, i |-> i]
    ELSE [iface |-> i + 1, i |-> i + 1]

\* An iface_iterator that does not look at num_ifaces.
iface_iterator_NoBound(num, i, first) ==
    LET i0 == IF first # 0 THEN 0 ELSE i
    IN  [iface |-> i0 + 1, i |-> i0 + 1]

\* The record returned (&iface_list[i], as a position; 0 for NULL) and the
\* static i as the call leaves it.
iface_iterator(num, i, first) ==
    LET i0 == IF first # 0 THEN 0 ELSE i
    IN  IF i0 >= num THEN [iface |-> 0, i |-> i0]
        ELSE [iface |-> i0 + 1, i |-> i0 + 1]

----------------------------------------------------------------------------
(* iface_update *)

\* A Grow without the memset of the slots realloc added.
GrowNoMemset(s, junk) ==
    IF s.num = s.alloc
    THEN [s EXCEPT !.alloc = s.alloc * 2,
                   !.list = s.list \o [k \in 1..s.alloc |-> junk]]
    ELSE s

\* The "Allocate more space?" block: realloc to twice the size, then
\* memset of num_ifaces slots starting at slot num_ifaces.
Grow(s, junk) ==
    IF s.num = s.alloc
    THEN LET realloced == s.list \o [k \in 1..s.alloc |-> junk]
         IN  [s EXCEPT !.alloc = s.alloc * 2,
                       !.list = [k \in 1..(s.alloc * 2) |->
                                    IF k > s.num /\ k <= s.num + s.num
                                    THEN ZeroIface ELSE realloced[k]]]
    ELSE s

\* A NewIface that leaves vif and mif as the slot has them.
NewIfaceKeepsVif(slot, ifa) ==
    LET nm == StrLCpy(ifa.ifa_name, IFNAMSIZ)
    IN  [slot EXCEPT !.name      = nm,
                     !.inaddr    = IF ifa.ifa_addr.sa_family # "NULL"
                                      /\ ifa.ifa_addr.sa_family = "AF_INET"
                                   THEN ifa.ifa_addr.s_addr ELSE @,
                     !.flags     = ifa.ifa_flags,
                     !.ifindex   = if_nametoindex(nm),
                     !.mrdisc    = 0,
                     !.threshold = DEFAULT_THRESHOLD]

\* A NewIface that leaves mrdisc and threshold as the slot has them.
NewIfaceNoDefaults(slot, ifa) ==
    LET nm == StrLCpy(ifa.ifa_name, IFNAMSIZ)
    IN  [slot EXCEPT !.name      = nm,
                     !.inaddr    = IF ifa.ifa_addr.sa_family # "NULL"
                                      /\ ifa.ifa_addr.sa_family = "AF_INET"
                                   THEN ifa.ifa_addr.s_addr ELSE @,
                     !.flags     = ifa.ifa_flags,
                     !.ifindex   = if_nametoindex(nm),
                     !.vif       = -1,
                     !.mif       = -1]

\* "Copy data from interface iterator 'ifa'" into the slot at num_ifaces++.
NewIface(slot, ifa) ==
    LET nm == StrLCpy(ifa.ifa_name, IFNAMSIZ)
    IN  [slot EXCEPT !.name      = nm,
                     !.inaddr    = IF ifa.ifa_addr.sa_family # "NULL"
                                      /\ ifa.ifa_addr.sa_family = "AF_INET"
                                   THEN ifa.ifa_addr.s_addr ELSE @,
                     !.flags     = ifa.ifa_flags,
                     !.ifindex   = if_nametoindex(nm),
                     !.vif       = -1,
                     !.mif       = -1,
                     !.mrdisc    = 0,
                     !.threshold = DEFAULT_THRESHOLD]

\* An Existing that does not ask whether the record has an address.
ExistingOverwrites(s, f, ifa) ==
    IF ifa.ifa_addr.sa_family # "NULL" /\ ifa.ifa_addr.sa_family = "AF_INET"
    THEN [s EXCEPT !.list[f].inaddr = ifa.ifa_addr.s_addr,
                   !.change = 1,
                   !.updated = @ \cup {f}]
    ELSE s

\* An Existing that takes the record for a new one and resets its vif and mif.
ExistingResetsVif(s, f, ifa) ==
    IF s.list[f].inaddr = 0 /\ ifa.ifa_addr.sa_family # "NULL"
                            /\ ifa.ifa_addr.sa_family = "AF_INET"
    THEN [s EXCEPT !.list[f].inaddr = ifa.ifa_addr.s_addr,
                   !.list[f].vif = -1,
                   !.list[f].mif = -1,
                   !.change = 1,
                   !.updated = @ \cup {f}]
    ELSE s

\* if (iface) { ... continue; }: the record that is already there.
Existing(s, f, ifa) ==
    IF s.list[f].inaddr = 0 /\ ifa.ifa_addr.sa_family # "NULL"
                            /\ ifa.ifa_addr.sa_family = "AF_INET"
    THEN [s EXCEPT !.list[f].inaddr = ifa.ifa_addr.s_addr,
                   !.change = 1,
                   !.updated = @ \cup {f}]
    ELSE s

\* An UpdateOne that reports a record it added as a change.
UpdateOneReportsAdded(s, ifa, refresh, junk) ==
    LET f == iface_find_by_name(s.list, s.num, ifa.ifa_name)
    IN  IF f # 0 THEN Existing(s, f, ifa)
        ELSE IF refresh # 0 THEN s
        ELSE LET g == Grow(s, junk)
             IN  [g EXCEPT !.list[g.num + 1] = NewIface(g.list[g.num + 1], ifa),
                           !.num = g.num + 1,
                           !.change = 1,
                           !.added = Append(@, [pos |-> g.num + 1, ifa |-> ifa,
                                                rec |-> NewIface(g.list[g.num + 1], ifa)])]

\* One round of the loop over the getifaddrs() list.
UpdateOne(s, ifa, refresh, junk) ==
    LET f == iface_find_by_name(s.list, s.num, ifa.ifa_name)
    IN  IF f # 0 THEN Existing(s, f, ifa)
        ELSE IF refresh # 0 THEN s
        ELSE LET g == Grow(s, junk)
             IN  [g EXCEPT !.list[g.num + 1] = NewIface(g.list[g.num + 1], ifa),
                           !.num = g.num + 1,
                           !.added = Append(@, [pos |-> g.num + 1, ifa |-> ifa,
                                                rec |-> NewIface(g.list[g.num + 1], ifa)])]

RECURSIVE UpdateLoop(_, _, _, _, _)
UpdateLoop(s, ifa, k, refresh, junk) ==
    IF k > Len(ifa) THEN s
    ELSE UpdateLoop(UpdateOne(s, ifa[k], refresh, junk), ifa, k + 1, refresh, junk)

\* The state iface_update(refresh) leaves, with its return value in .change,
\* the positions whose address the "already added" branch assigned in
\* .updated, and in .added each record as the "Copy data" block made it,
\* with its position and the getifaddrs() entry it was made from.
Update(list, alloc, num, ifa, refresh, junk) ==
    UpdateLoop([list |-> list, alloc |-> alloc, num |-> num,
                change |-> 0, updated |-> {}, added |-> <<>>], ifa, 1, refresh, junk)

\* The history of the cursor: the pattern and the function (kind) its caller
\* walks it with since iface_match_init, what each call returned (a position,
\* 0 for none), whether a refresh has filled an address meanwhile, whether
\* the history still describes the vector (no iface_init and no vif written
\* since iface_match_init), and the number of calls since iface_match_init
\* that returned a record or a vif or mif >= 0.
NoCalls ==
    [pat |-> NULL, kind |-> "none", results |-> <<>>, refreshed |-> FALSE,
     valid |-> FALSE, returned |-> 0]

Invalid(c) == [c EXCEPT !.results = <<>>, !.refreshed = FALSE, !.valid = FALSE]

\* The history of one operation: its name, the mode (arg) or the name or
\* pattern it was called with, what it returned, the positions whose inaddr
\* iface_update assigned in its "already added" branch, the records it
\* added, the number of records with a vif or mif that iface_init threw
\* away, and what became of a read through the null iface_list (ub).
LastOp(o) ==
    [op |-> o, arg |-> 0, name |-> NULL, ret |-> 0, updated |-> {}, added |-> <<>>,
     discarded |-> 0, ub |-> "none"]

\* The callers of iface_iterator, and the history of their passes: what the
\* calls of a caller returned since its iface_iterator(1), whether the pass
\* is its own still (no call of another caller and no iface_init since), and
\* the position returned most recently, to whichever caller, since the last
\* iface_iterator(1) (0: none yet).
Callers == {"a", "b"}

NoWalk ==
    [pass |-> [c \in Callers |-> [results |-> <<>>, clean |-> FALSE]], recent |-> 0]

Interrupted(w) ==
    [w EXCEPT !.pass = [c \in Callers |-> [w.pass[c] EXCEPT !.clean = FALSE]]]

\* The process runs until a signal ends it.
Running == last.ub # "SIGSEGV"

\* iface_exit has set iface_list to NULL and has left num_ifaces as it was.
Dangling == iface_list = <<>> /\ num_ifaces > 0

\* A loop over the records that reads iface_list[i] through the null
\* pointer: the read faults, or it reads whatever is mapped at that address
\* and the function returns accordingly.
NullRead(l) ==
    \/ last' = [l EXCEPT !.ub = "SIGSEGV"]
    \/ \E r \in 0..num_ifaces : last' = [l EXCEPT !.ret = r, !.ub = "read"]

\* iface_update(refresh) on the vector as it is.  In the program the periodic
\* check is iface_update(1); iface_update(0) runs inside iface_init.
iface_update(refresh) ==
    /\ Running
    /\ num_ifaces_alloc >= 1          \* iface_init() has run
    /\ iface_list # <<>>              \* and iface_exit() has not
    /\ \E junk \in JunkIfaces :
         LET s == Update(iface_list, num_ifaces_alloc, num_ifaces,
                         ifaddrs, refresh, junk)
         IN  /\ s.num <= MaxGrown \/ refresh # 0
             /\ iface_list' = s.list
             /\ num_ifaces_alloc' = s.alloc
             /\ num_ifaces' = s.num
             /\ last' = [LastOp("iface_update") EXCEPT !.arg = refresh,
                                                       !.ret = s.change,
                                                       !.updated = s.updated,
                                                       !.added = s.added]
             /\ calls' = IF refresh = 0 THEN Invalid(calls)
                         ELSE [calls EXCEPT !.refreshed = @ \/ (calls.valid /\ s.change = 1)]
             /\ walk' = IF refresh = 0 THEN Interrupted(walk) ELSE walk
    /\ UNCHANGED <<ifaddrs, state, iterator_i, buildVars>>

\* num_ifaces = 0; free; calloc of one slot; iface_update(0).  The history
\* keeps what the iface_update(0) call returned, which iface_init discards.
iface_init ==
    /\ Running
    /\ \E junk \in JunkIfaces :
         LET s == Update(<<ZeroIface>>, 1, 0, ifaddrs, 0, junk)
         IN  /\ iface_list' = s.list
             /\ num_ifaces_alloc' = s.alloc
             /\ num_ifaces' = s.num
             /\ last' = [LastOp("iface_init") EXCEPT
                           !.ret = s.change,
                           !.updated = s.updated,
                           !.added = s.added,
                           !.discarded = Cardinality({ i \in 1..Len(iface_list) :
                                                         /\ i <= num_ifaces
                                                         /\ \/ iface_list[i].vif >= 0
                                                            \/ iface_list[i].mif >= 0 })]
    /\ calls' = Invalid(calls)
    /\ walk' = Interrupted(walk)
    /\ UNCHANGED <<ifaddrs, state, iterator_i, buildVars>>

----------------------------------------------------------------------------
(* The operating system and the registration subsystem *)

\* An interface or an address appears.
OsAdd(entries) ==
    /\ Running
    /\ Len(ifaddrs) < MaxIfAddrs
    /\ \E e \in entries : ifaddrs' = Append(ifaddrs, e)
    /\ last' = LastOp("os")
    /\ UNCHANGED <<storeVars, cursorVars, iterVars, buildVars>>

\* An interface or an address goes away.
OsDel ==
    /\ Running
    /\ \E k \in 1..Len(ifaddrs) :
         ifaddrs' = SubSeq(ifaddrs, 1, k - 1) \o SubSeq(ifaddrs, k + 1, Len(ifaddrs))
    /\ last' = LastOp("os")
    /\ UNCHANGED <<storeVars, cursorVars, iterVars, buildVars>>

\* The first interface of the list, which had no address, gets one.
OsAddrUp ==
    /\ Running
    /\ Len(ifaddrs) > 0
    /\ ifaddrs[1].ifa_addr.sa_family # "AF_INET"
    /\ ifaddrs' = [ifaddrs EXCEPT ![1].ifa_addr = Inet(1)]
    /\ last' = LastOp("os")
    /\ UNCHANGED <<storeVars, cursorVars, iterVars, buildVars>>

\* The registration subsystem writes the vif it got from the kernel (or -1
\* when it unregisters) into a record it looked up.
SetVif(maxvif) ==
    /\ Running
    /\ ~Dangling
    /\ \E i \in 1..num_ifaces, v \in -1..maxvif :
         /\ v # iface_list[i].vif
         /\ v >= 0 => \A j \in 1..num_ifaces : iface_list[j].vif # v
         /\ iface_list' = [iface_list EXCEPT ![i].vif = v]
    /\ last' = LastOp("set_vif")
    /\ calls' = Invalid(calls)
    /\ UNCHANGED <<num_ifaces_alloc, num_ifaces, ifaddrs, state, iterVars, buildVars>>

SetMif ==
    /\ Running
    /\ ~Dangling
    /\ \E i \in 1..num_ifaces, m \in -1..0 :
         /\ m # iface_list[i].mif
         /\ iface_list' = [iface_list EXCEPT ![i].mif = m]
    /\ last' = LastOp("set_mif")
    /\ calls' = Invalid(calls)
    /\ UNCHANGED <<num_ifaces_alloc, num_ifaces, ifaddrs, state, iterVars, buildVars>>

\* The configuration enables router discovery and sets a TTL threshold.
SetConf ==
    /\ Running
    /\ ~Dangling
    /\ \E i \in 1..num_ifaces :
         /\ iface_list[i].mrdisc = 0
         /\ iface_list' = [iface_list EXCEPT ![i].mrdisc = 1,
                                             ![i].threshold = DEFAULT_THRESHOLD + 1]
    /\ last' = LastOp("set_conf")
    /\ UNCHANGED <<num_ifaces_alloc, num_ifaces, ifaddrs, cursorVars, iterVars, buildVars>>

----------------------------------------------------------------------------
(* The callers of the lookups and of the pattern iterators *)

eth_plus  == <<"e", "t", "h", "+">>
plus      == <<"+">>

Patterns == {eth_plus, plus, eth0}

\* A caller looks a name up.
FindByName(names) ==
    /\ Running
    /\ \E n \in names :
         IF Dangling /\ n # NULL
         THEN NullRead([LastOp("iface_find_by_name") EXCEPT !.name = n])
         ELSE last' = [LastOp("iface_find_by_name") EXCEPT
                         !.name = n,
                         !.ret = iface_find_by_name(iface_list, num_ifaces, n)]
    /\ UNCHANGED <<storeVars, ifaddrs, cursorVars, iterVars, buildVars>>

\* A caller looks an ifindex up.
Find(indexes) ==
    /\ Running
    /\ \E x \in indexes :
         IF Dangling
         THEN NullRead([LastOp("iface_find") EXCEPT !.arg = x])
         ELSE last' = [LastOp("iface_find") EXCEPT
                         !.arg = x,
                         !.ret = iface_find(iface_list, num_ifaces, x)]
    /\ UNCHANGED <<storeVars, ifaddrs, cursorVars, iterVars, buildVars>>

\* A caller looks a vif up.
FindByVif(vifs) ==
    /\ Running
    /\ \E v \in vifs :
         IF Dangling
         THEN NullRead([LastOp("iface_find_by_vif") EXCEPT !.arg = v])
         ELSE last' = [LastOp("iface_find_by_vif") EXCEPT
                         !.arg = v,
                         !.ret = iface_find_by_vif(iface_list, num_ifaces, v)]
    /\ UNCHANGED <<storeVars, ifaddrs, cursorVars, iterVars, buildVars>>

\* A caller starts to walk the records of a pattern: by name, by vif, by mif,
\* or with the three functions in any order ("mixed").
iface_match_init(patterns, kinds) ==
    /\ Running
    /\ state' = [iter |-> 0, match_count |-> 0]
    /\ \E p \in patterns, k \in kinds :
         calls' = [NoCalls EXCEPT !.pat = p, !.kind = k, !.valid = TRUE]
    /\ last' = LastOp("iface_match_init")
    /\ UNCHANGED <<storeVars, ifaddrs, iterVars, buildVars>>

\* Its next call of iface_match_by_name.  After iface_exit the loop reads
\* names through the null iface_list: a fault, or a comparison with whatever
\* is mapped there, which matches at some position or at none.
MatchNext ==
    /\ Running
    /\ calls.kind \in {"name", "mixed"}
    /\ Len(calls.results) < MaxCalls
    /\ IF Dangling /\ calls.pat # NULL /\ state.iter < num_ifaces
       THEN \/ /\ last' = [LastOp("iface_match_by_name") EXCEPT
                             !.name = calls.pat, !.ub = "SIGSEGV"]
               /\ UNCHANGED cursorVars
            \/ \E pos \in (state.iter + 1)..num_ifaces :
                 /\ state' = [iter |-> pos, match_count |-> Inc(state.match_count)]
                 /\ calls' = [calls EXCEPT !.returned = @ + 1]
                 /\ last' = [LastOp("iface_match_by_name") EXCEPT
                               !.name = calls.pat, !.ret = pos, !.ub = "read"]
            \/ /\ state' = [state EXCEPT !.iter = num_ifaces]
               /\ calls' = calls
               /\ last' = [LastOp("iface_match_by_name") EXCEPT
                             !.name = calls.pat, !.ub = "read"]
       ELSE LET r == iface_match_by_name(iface_list, num_ifaces, calls.pat, state)
            IN  /\ state' = r.state
                /\ calls' = [calls EXCEPT
                               !.results = IF calls.valid THEN Append(@, r.iface) ELSE @,
                               !.returned = IF r.iface # 0 THEN @ + 1 ELSE @]
                /\ last' = [LastOp("iface_match_by_name") EXCEPT
                              !.name = calls.pat, !.ret = r.iface]
    /\ UNCHANGED <<storeVars, ifaddrs, iterVars, buildVars>>

\* Its next call of iface_match_vif_by_name.
MatchVifNext ==
    /\ Running
    /\ calls.kind \in {"vif", "mixed"}
    /\ Len(calls.results) < MaxCalls
    /\ LET r == iface_match_vif_by_name(iface_list, num_ifaces, calls.pat, state)
       IN  /\ state' = r.state
           /\ calls' = [calls EXCEPT
                          !.results = IF calls.valid THEN Append(@, r.found) ELSE @,
                          !.returned = IF r.vif >= 0 THEN @ + 1 ELSE @]
           /\ last' = [LastOp("iface_match_vif_by_name") EXCEPT
                         !.name = calls.pat, !.arg = r.found, !.ret = r.vif]
    /\ UNCHANGED <<storeVars, ifaddrs, iterVars, buildVars>>

\* Its next call of iface_match_mif_by_name.
MatchMifNext ==
    /\ Running
    /\ calls.kind \in {"mif", "mixed"}
    /\ Len(calls.results) < MaxCalls
    /\ LET r == iface_match_mif_by_name(iface_list, num_ifaces, calls.pat, state)
       IN  /\ state' = r.state
           /\ calls' = [calls EXCEPT
                          !.results = IF calls.valid THEN Append(@, r.found) ELSE @,
                          !.returned = IF r.mif >= 0 THEN @ + 1 ELSE @]
           /\ last' = [LastOp("iface_match_mif_by_name") EXCEPT
                         !.name = calls.pat, !.arg = r.found, !.ret = r.mif]
    /\ UNCHANGED <<storeVars, ifaddrs, iterVars, buildVars>>

\* A caller calls iface_iterator(first); a caller's pass begins with its
\* iface_iterator(1).  After iface_exit the function still returns
\* &iface_list[i] for i < num_ifaces: the null pointer itself for i = 0, and
\* a pointer to no record for i > 0.
Iterate(callers) ==
    /\ Running
    /\ \E c \in callers, first \in {0, 1} :
         /\ first = 0 => /\ walk.pass[c].results # <<>>
                         /\ Len(walk.pass[c].results) < MaxCalls
         /\ LET r   == iface_iterator(num_ifaces, iterator_i, first)
                ret == IF Dangling /\ r.iface = 1 THEN 0 ELSE r.iface
            IN  /\ iterator_i' = r.i
                /\ walk' =
                     [pass |->
                        [d \in Callers |->
                           IF d = c
                           THEN [results |-> IF first # 0 THEN <<ret>>
                                             ELSE Append(walk.pass[c].results, ret),
                                 clean   |-> IF first # 0 THEN TRUE
                                             ELSE walk.pass[c].clean]
                           ELSE [walk.pass[d] EXCEPT !.clean = FALSE]],
                      recent |-> IF first # 0 \/ ret # 0 THEN ret ELSE walk.recent]
                /\ last' = [LastOp("iface_iterator") EXCEPT
                              !.name = <<c>>, !.arg = first, !.ret = ret,
                              !.ub = IF Dangling /\ r.iface > 1
                                     THEN "dangling" ELSE "none"]
    /\ UNCHANGED <<storeVars, ifaddrs, cursorVars, buildVars>>

\* iface_exit: the vector is freed and iface_list set to NULL; num_ifaces and
\* num_ifaces_alloc are left as they are.
iface_exit ==
    /\ Running
    /\ iface_list' = <<>>
    /\ last' = LastOp("iface_exit")
    /\ calls' = Invalid(calls)
    /\ walk' = Interrupted(walk)
    /\ UNCHANGED <<num_ifaces_alloc, num_ifaces, ifaddrs, state, iterator_i, buildVars>>

----------------------------------------------------------------------------
(* Spec: the synchroniser.  The OS's interfaces come and go, the registry is
   populated by iface_init and refreshed by iface_update(1). *)

SyncNames == {eth0, eth0_1}

Init ==
    /\ iface_list = <<>>
    /\ num_ifaces_alloc = 0
    /\ num_ifaces = 0
    /\ ifaddrs = <<>>
    /\ state = [iter |-> 0, match_count |-> 0]
    /\ last = LastOp("start")
    /\ calls = NoCalls
    /\ iterator_i = 0
    /\ walk = NoWalk
    /\ HAVE_IPV6_MULTICAST_ROUTING = TRUE

Next ==
    \/ iface_init
    \/ iface_update(1)
    \/ OsAdd(IfAddrs(SyncNames))
    \/ OsDel

Spec == Init /\ [][Next]_vars

(* SpecReg: the synchroniser together with the registration subsystem, which
   writes vif, mif, mrdisc and threshold into the records, and with
   iface_update(0) applied to a vector that already holds records. *)

RegIfAddrs ==
    { IfAddr(eth0, Packet), IfAddr(eth0, Inet(1)), IfAddr(eth0_1, Inet(2)) }

NextReg ==
    \/ iface_init
    \/ iface_update(0)
    \/ iface_update(1)
    \/ OsAdd(RegIfAddrs)
    \/ OsDel
    \/ SetVif(0)
    \/ SetMif
    \/ SetConf

SpecReg == Init /\ [][NextReg]_vars

(* SpecFind: iface_find_by_name as a function of the vector.  The vectors
   iface_update builds never hold two records of one name without ':', so
   the lookup is followed on every vector of up to MaxIfaces records, with
   the vifs the registration subsystem writes. *)

FindNames == {eth0, wlan0, eth0_1}

Queries == FindNames \cup {eth1, eth0_1 \o <<":", "2">>, <<":", "1">>, <<>>, NULL}

FindVectors ==
    UNION { [1..n -> { NewIface(ZeroIface, IfAddr(nm, NoAddr)) : nm \in FindNames }] :
            n \in 0..MaxIfaces }

InitFind ==
    /\ iface_list \in FindVectors
    /\ num_ifaces_alloc = Len(iface_list)
    /\ num_ifaces = Len(iface_list)
    /\ ifaddrs = <<>>
    /\ state = [iter |-> 0, match_count |-> 0]
    /\ last = LastOp("start")
    /\ calls = NoCalls
    /\ iterator_i = 0
    /\ walk = NoWalk
    /\ HAVE_IPV6_MULTICAST_ROUTING = TRUE

NextFind ==
    \/ FindByName(Queries)
    \/ SetVif(MaxVif)

SpecFind == InitFind /\ [][NextFind]_vars

(* SpecMatch: the pattern iterators.  The OS has up to MaxIfaces interfaces,
   none with an address yet; iface_init populates the registry, the first
   interface gets its address and the periodic iface_update(1) fills it in,
   the registration subsystem writes vifs, and a caller walks the records of
   a pattern with one cursor. *)

MatchNames == {eth0, eth01, wlan0}

MatchIfAddrs ==
    { ifa \in UNION { [1..n -> { IfAddr(nm, Packet) : nm \in MatchNames }] :
                      n \in 0..MaxIfaces } :
        \A j, k \in 1..Len(ifa) : j # k => ifa[j].ifa_name # ifa[k].ifa_name }

InitMatch ==
    /\ iface_list = <<>>
    /\ num_ifaces_alloc = 0
    /\ num_ifaces = 0
    /\ ifaddrs \in MatchIfAddrs
    /\ state = [iter |-> 0, match_count |-> 0]
    /\ last = LastOp("start")
    /\ calls = NoCalls
    /\ iterator_i = 0
    /\ walk = NoWalk
    /\ HAVE_IPV6_MULTICAST_ROUTING = TRUE

NextMatch ==
    \/ iface_init
    \/ iface_update(1)
    \/ OsAddrUp
    \/ SetVif(MaxVif)
    \/ iface_match_init(Patterns, {"name", "vif"})
    \/ MatchNext
    \/ MatchVifNext

SpecMatch == InitMatch /\ [][NextMatch]_vars

(* SpecCursor: one caller-owned cursor used with iface_match_by_name,
   iface_match_vif_by_name and iface_match_mif_by_name in any order, with
   patterns that are NULL or empty among them, on either build, while the
   registration subsystem writes vifs and mifs. *)

CursorIfAddrs ==
    { <<IfAddr(eth0, Packet), IfAddr(wlan0, Inet(1)), IfAddr(eth01, Packet)>>,
      <<IfAddr(eth0, Packet), IfAddr(eth01, Packet)>> }

CursorPatterns == {NULL, <<>>, plus}

InitCursor ==
    /\ iface_list = <<>>
    /\ num_ifaces_alloc = 0
    /\ num_ifaces = 0
    /\ ifaddrs \in CursorIfAddrs
    /\ state = [iter |-> 0, match_count |-> 0]
    /\ last = LastOp("start")
    /\ calls = NoCalls
    /\ iterator_i = 0
    /\ walk = NoWalk
    /\ HAVE_IPV6_MULTICAST_ROUTING \in BOOLEAN

NextCursor ==
    \/ iface_init
    \/ SetVif(0)
    \/ SetMif
    \/ FindByName({NULL, <<>>})
    \/ iface_match_init(CursorPatterns, {"mixed"})
    \/ MatchNext
    \/ MatchVifNext
    \/ MatchMifNext

SpecCursor == InitCursor /\ [][NextCursor]_vars

(* SpecEnum: the enumeration of all records with iface_iterator by two
   callers, while the registration subsystem writes vifs and iface_init
   re-populates the registry. *)

EnumIfAddrs ==
    { <<>>,
      <<IfAddr(eth0, Packet), IfAddr(wlan0, Inet(1)), IfAddr(eth01, Packet)>> }

InitEnum ==
    /\ iface_list = <<>>
    /\ num_ifaces_alloc = 0
    /\ num_ifaces = 0
    /\ ifaddrs \in EnumIfAddrs
    /\ state = [iter |-> 0, match_count |-> 0]
    /\ last = LastOp("start")
    /\ calls = NoCalls
    /\ iterator_i = 0
    /\ walk = NoWalk
    /\ HAVE_IPV6_MULTICAST_ROUTING = TRUE

NextEnum ==
    \/ iface_init
    \/ SetVif(0)
    \/ Iterate(Callers)

SpecEnum == InitEnum /\ [][NextEnum]_vars

(* SpecStale: a cursor and the static i of iface_iterator that outlive the
   records they point at.  Interfaces go away, iface_init re-populates the
   registry with fewer records, and the callers go on with the positions
   they have. *)

StaleIfAddrs == { <<IfAddr(eth0, Packet), IfAddr(eth01, Packet)>> }

InitStale ==
    /\ iface_list = <<>>
    /\ num_ifaces_alloc = 0
    /\ num_ifaces = 0
    /\ ifaddrs \in StaleIfAddrs
    /\ state = [iter |-> 0, match_count |-> 0]
    /\ last = LastOp("start")
    /\ calls = NoCalls
    /\ iterator_i = 0
    /\ walk = NoWalk
    /\ HAVE_IPV6_MULTICAST_ROUTING = TRUE

NextStale ==
    \/ iface_init
    \/ OsDel
    \/ SetVif(0)
    \/ iface_match_init({eth_plus}, {"mixed"})
    \/ MatchNext
    \/ MatchVifNext
    \/ MatchMifNext
    \/ Iterate({"a"})

SpecStale == InitStale /\ [][NextStale]_vars

(* SpecExit: the life of the registry up to iface_exit and beyond.  The OS
   has its interfaces, iface_init populates the registry, the registration
   subsystem writes vifs, callers look records up and walk them, iface_exit
   tears the registry down, and the callers go on. *)

ExitIfAddrs == { IfAddr(eth0, Packet), IfAddr(wlan0, Inet(1)) }

ExitIndexes == { if_nametoindex(wlan0), 0 }

NextExit ==
    \/ iface_init
    \/ OsAdd(ExitIfAddrs)
    \/ SetVif(0)
    \/ iface_exit
    \/ Find(ExitIndexes)
    \/ FindByVif({0})
    \/ FindByName({eth0, NULL})
    \/ iface_match_init({plus}, {"name"})
    \/ MatchNext
    \/ Iterate({"a"})

SpecExit == Init /\ [][NextExit]_vars

----------------------------------------------------------------------------
(* Claims about the synchroniser *)

ReportedNames == { ifaddrs[k].ifa_name : k \in 1..Len(ifaddrs) }

Records == 1..num_ifaces

\* C1: after a full re-populate (iface_init) every distinct name the OS
\* reported, alias names included, has exactly one record, and no two records
\* have the same ifindex.
C1_OneRecordPerReportedName ==
    last.op = "iface_init" =>
        /\ \A n \in ReportedNames :
             Cardinality({ i \in Records : iface_list[i].name = n }) = 1
        /\ \A i, j \in Records :
             i # j => iface_list[i].ifindex # iface_list[j].ifindex

\* C2: iface_update(1) leaves the number of records as it is, and the address
\* of each record is what it was, or was empty and is now an IPv4 address of
\* the getifaddrs() list; an address that was set is never replaced.
C2_RefreshOnlyFillsEmptyAddress ==
    [][ (last'.op = "iface_update" /\ last'.arg = 1) =>
          /\ num_ifaces' = num_ifaces
          /\ num_ifaces_alloc' = num_ifaces_alloc
          /\ \A i \in Records :
               \/ iface_list'[i].inaddr = iface_list[i].inaddr
               \/ /\ iface_list[i].inaddr = 0
                  /\ \E k \in 1..Len(ifaddrs) :
                       ifaddrs[k].ifa_addr = Inet(iface_list'[i].inaddr) ]_vars

\* A refresh has run over a list that reports, for the name of a record that
\* had an address already, a different IPv4 address.
C2_Witness ==
    /\ last.op = "iface_update"
    /\ last.arg = 1
    /\ \E i \in Records, k \in 1..Len(ifaddrs) :
         /\ i \notin last.updated
         /\ iface_list[i].inaddr # 0
         /\ ifaddrs[k].ifa_name = iface_list[i].name
         /\ ifaddrs[k].ifa_addr.sa_family = "AF_INET"
         /\ ifaddrs[k].ifa_addr.s_addr # iface_list[i].inaddr

\* C3: after iface_init every record has vif = -1 and mif = -1, whatever the
\* registration subsystem had assigned before.
C3_RepopulateResetsVifMif ==
    last.op = "iface_init" =>
        \A i \in Records : iface_list[i].vif = -1 /\ iface_list[i].mif = -1

\* iface_init has thrown away records that had a vif or mif, and has made records.
C3_Witness ==
    /\ last.op = "iface_init"
    /\ last.discarded > 0
    /\ num_ifaces > 0

Identity(r) == <<r.name, r.flags, r.ifindex, r.vif, r.mif, r.mrdisc, r.threshold>>

\* C5: iface_update, in either mode, leaves name, flags, ifindex, vif, mif,
\* mrdisc and threshold of every record that was there, and its position, as
\* they were; the records it adds have vif = -1 and mif = -1.
C5_UpdateKeepsIdentity ==
    [][ last'.op = "iface_update" =>
          /\ num_ifaces' >= num_ifaces
          /\ \A i \in Records : Identity(iface_list'[i]) = Identity(iface_list[i])
          /\ \A i \in (num_ifaces + 1)..num_ifaces' :
               iface_list'[i].vif = -1 /\ iface_list'[i].mif = -1 ]_vars

\* iface_update(0) has assigned the address of a record that the registration
\* subsystem had given a vif, a mif, router discovery and a threshold.
C5_Witness ==
    /\ last.op = "iface_update"
    /\ last.arg = 0
    /\ \E i \in last.updated :
         /\ iface_list[i].vif >= 0
         /\ iface_list[i].mif >= 0
         /\ iface_list[i].mrdisc = 1
         /\ iface_list[i].threshold # DEFAULT_THRESHOLD

\* The records without an address for whose name the getifaddrs() list has
\* an IPv4 address.
Gaining ==
    { i \in Records :
        /\ iface_list[i].inaddr = 0
        /\ \E k \in 1..Len(ifaddrs) :
             /\ ifaddrs[k].ifa_name = iface_list[i].name
             /\ ifaddrs[k].ifa_addr.sa_family = "AF_INET" }

\* C13: iface_update(1) fills the address of every record that has none and
\* for whose name the getifaddrs() list reports an IPv4 address, leaves every
\* other record as it is, and returns 1 when there is such a record.
C13_RefreshFillsReportedAddress ==
    [][ (last'.op = "iface_update" /\ last'.arg = 1) =>
          /\ \A i \in Gaining : iface_list'[i].inaddr # 0
          /\ \A i \in Records \ Gaining : iface_list'[i] = iface_list[i]
          /\ Gaining # {} => last'.ret = 1 ]_vars

RECURSIVE IsPowerOfTwo(_)
IsPowerOfTwo(n) == n = 1 \/ (n > 1 /\ n % 2 = 0 /\ IsPowerOfTwo(n \div 2))

RECURSIVE Doubled(_, _)
\* The capacity a, doubled until n records fit.
Doubled(a, n) == IF n <= a THEN a ELSE Doubled(2 * a, n)

\* C14: once iface_init has run, num_ifaces <= num_ifaces_alloc, the capacity
\* is a power of two >= 1 and every slot from num_ifaces up to the capacity
\* is all zero; the capacity is 1 doubled as often as the records appended
\* since the last iface_init needed it and no more often: iface_init starts
\* again from 1, an append doubles it exactly when it finds the vector full,
\* and nothing else changes it.
C14_CapacityAndZeroSlots ==
    num_ifaces_alloc >= 1 =>
        /\ num_ifaces <= num_ifaces_alloc
        /\ IsPowerOfTwo(num_ifaces_alloc)
        /\ num_ifaces_alloc = Doubled(1, num_ifaces)
        /\ Len(iface_list) = num_ifaces_alloc
        /\ \A k \in (num_ifaces + 1)..num_ifaces_alloc : iface_list[k] = ZeroIface

\* iface_init has thrown three records away and has made three: the capacity
\* went back to 1 and doubled twice, and the fourth slot is free.
C14_Witness ==
    /\ last.op = "iface_init"
    /\ last.discarded > 0
    /\ num_ifaces = 3
    /\ num_ifaces_alloc = 4

\* C15: every record iface_update(0) appends, whatever vector, vifs and mifs
\* there were before and however often the vector grows, is made
\* with vif = -1, mif = -1, mrdisc off, the default threshold, the name and
\* flags of its getifaddrs() entry, the ifindex if_nametoindex gives for the
\* name, and the entry's IPv4 address, or no address when the entry has
\* none; the rest of the call changes nothing of it but to fill the address.
C15_NewRecordDefaults ==
    /\ (last.op = "iface_update" /\ last.arg = 1) => last.added = <<>>
    /\ last.op = "iface_init" => Len(last.added) = num_ifaces
    /\ \A k \in 1..Len(last.added) :
         LET a == last.added[k]
             r == a.rec
             f == iface_list[a.pos]
         IN  /\ a.pos \in Records
             /\ r.vif = -1
             /\ r.mif = -1
             /\ r.mrdisc = 0
             /\ r.threshold = DEFAULT_THRESHOLD
             /\ r.name = a.ifa.ifa_name
             /\ r.flags = a.ifa.ifa_flags
             /\ r.ifindex = if_nametoindex(a.ifa.ifa_name)
             /\ r.inaddr = IF a.ifa.ifa_addr.sa_family = "AF_INET"
                           THEN a.ifa.ifa_addr.s_addr ELSE 0
             /\ Identity(f) = Identity(r)
             /\ \/ f.inaddr = r.inaddr
                \/ r.inaddr = 0 /\ a.pos \in last.updated

\* iface_init has thrown away records with a vif and a mif and has made
\* three: one with the address of its entry, and one without an address in
\* a slot that realloc added.
C15_Witness ==
    /\ last.op = "iface_init"
    /\ last.discarded > 1
    /\ num_ifaces = 3
    /\ \E j, k \in 1..Len(last.added) :
         /\ last.added[j].rec.inaddr # 0
         /\ last.added[k].pos = 3
         /\ last.added[k].ifa.ifa_addr.sa_family # "AF_INET"
         /\ iface_list[3].inaddr = 0

----------------------------------------------------------------------------
(* Claims about iface_find_by_name *)

BaseNames == {eth0, eth1, wlan0, <<>>}

Suffixes == {<<>>, <<"1">>, <<"1", ":", "2">>}

\* C6: for every vector, every name b without ':' and every suffix s, the
\* lookup of b ':' s finds what the lookup of b finds.
C6_AliasResolvesAsBase ==
    \A b \in BaseNames, sfx \in Suffixes :
        iface_find_by_name(iface_list, num_ifaces, b \o <<":">> \o sfx)
            = iface_find_by_name(iface_list, num_ifaces, b)

\* The lookup of eth0:1 has returned the eth0 record, the only one there is.
C6_Witness ==
    /\ last.op = "iface_find_by_name"
    /\ last.name = eth0_1
    /\ num_ifaces = 1
    /\ iface_list[1].name = eth0
    /\ last.ret = 1

\* The part of a name before its first ':'.
BaseName(n) ==
    CHOOSE b \in { SubSeq(n, 1, k) : k \in 0..Len(n) } :
        /\ \A j \in 1..Len(b) : b[j] # ":"
        /\ Len(b) = Len(n) \/ n[Len(b) + 1] = ":"

NamedLike(n) == { i \in Records : iface_list[i].name = BaseName(n) }

\* C7: the lookup returns, of the records whose name is the name looked up
\* without its alias suffix, the first that has a vif >= 0; the last of
\* them when none has; none when there is no such record.
C7_FirstWithVifElseLast ==
    \A q \in Queries \ {NULL} :
        LET M == NamedLike(q)
            V == { i \in M : iface_list[i].vif >= 0 }
            r == iface_find_by_name(iface_list, num_ifaces, q)
        IN  IF M = {} THEN r = 0
            ELSE IF V # {} THEN r \in V /\ \A j \in V : r <= j
            ELSE r \in M /\ \A j \in M : j <= r

\* The lookup of eth0:1 has found several eth0 records, a first one without a
\* vif and after it two with one, and has returned the first with a vif.
C7_Witness ==
    /\ last.op = "iface_find_by_name"
    /\ last.name = eth0_1
    /\ \E i, j, k \in NamedLike(last.name) :
         /\ i < j /\ j < k
         /\ iface_list[i].vif = -1
         /\ iface_list[j].vif >= 0
         /\ iface_list[k].vif >= 0
         /\ last.ret = j

AliasNames == { n \in ReportedNames : StrChr(n, ":") > 0 }

\* C18: iface_find_by_name never returns a record whose stored name has a
\* ':'.  So in iface_init an entry with an alias name counts as already
\* added exactly when an entry with its base name came before it in the
\* getifaddrs() list; every other entry with that alias name gets a record
\* of its own, each time it occurs.
C18_AliasRecordsAreNeverFound ==
    /\ \A q \in Queries \ {NULL} :
         LET r == iface_find_by_name(iface_list, num_ifaces, q)
         IN  r # 0 => StrChr(iface_list[r].name, ":") = 0
    /\ last.op = "iface_init" =>
         \A a \in AliasNames :
             Cardinality({ i \in Records : iface_list[i].name = a })
               = Cardinality({ k \in 1..Len(ifaddrs) :
                                 /\ ifaddrs[k].ifa_name = a
                                 /\ \A j \in 1..(k - 1) :
                                      ifaddrs[j].ifa_name # BaseName(a) })

\* iface_init has made two records for the two eth0:1 entries of the list,
\* and the lookup of eth0:1 finds neither.
C18_Witness ==
    /\ last.op = "iface_init"
    /\ num_ifaces = 2
    /\ iface_list[1].name = eth0_1
    /\ iface_list[2].name = eth0_1
    /\ iface_find_by_name(iface_list, num_ifaces, eth0_1) = 0

----------------------------------------------------------------------------
(* Claims about the pattern iterators *)

IsPrefix(p, n) == Len(p) <= Len(n) /\ SubSeq(n, 1, Len(p)) = p

\* A wildcard pattern without its '+'.
Stem(p) == SubSeq(p, 1, Len(p) - 1)

IsWildcard(p) == p # NULL /\ p # <<>> /\ p[Len(p)] = "+"

NameMatches(p, n) == IF IsWildcard(p) THEN IsPrefix(Stem(p), n) ELSE n = p

RECURSIVE Ascending(_)
\* The positions of a set, in the order of the vector.
Ascending(S) ==
    IF S = {} THEN <<>>
    ELSE LET m == CHOOSE x \in S : \A y \in S : x <= y
         IN  <<m>> \o Ascending(S \ {m})

\* What n calls return when S are the positions to return: each once, in the
\* order of the vector, and none (0) from then on.
Returned(S, n) ==
    [k \in 1..n |-> IF k <= Cardinality(S) THEN Ascending(S)[k] ELSE 0]

\* C8: with one cursor since iface_match_init and no iface_init since, the
\* calls of iface_match_by_name with a pattern p+ return the records whose
\* name begins with p, each once, in the order of the vector, then none on
\* every later call; match_count is the number of records returned.  The
\* periodic iface_update(1) between the calls changes none of it.
C8_WildcardWalk ==
    (calls.valid /\ calls.kind = "name" /\ IsWildcard(calls.pat)) =>
        LET S == { i \in Records : IsPrefix(Stem(calls.pat), iface_list[i].name) }
        IN  /\ calls.results = Returned(S, Len(calls.results))
            /\ state.match_count = Min(Len(calls.results), Cardinality(S))

\* eth+ over eth0, wlan0, eth01 has returned eth0, eth01, none, none, with a
\* refresh that filled an address between the calls; match_count is 2.
C8_Witness ==
    /\ calls.valid
    /\ calls.kind = "name"
    /\ calls.pat = eth_plus
    /\ calls.refreshed
    /\ num_ifaces = 3
    /\ iface_list[1].name = eth0
    /\ iface_list[2].name = wlan0
    /\ iface_list[3].name = eth01
    /\ calls.results = <<1, 3, 0, 0>>
    /\ state.match_count = 2

\* C9: with a pattern that does not end in '+', iface_match_by_name returns
\* only records whose name is the pattern; a record whose name is longer and
\* begins with the pattern is never returned.
C9_ExactMatchWithoutPlus ==
    (calls.valid /\ calls.kind = "name" /\ ~IsWildcard(calls.pat)) =>
        /\ \A k \in 1..Len(calls.results) :
             calls.results[k] # 0 => iface_list[calls.results[k]].name = calls.pat
        /\ calls.results =
             Returned({ i \in Records : iface_list[i].name = calls.pat },
                      Len(calls.results))

\* The pattern eth0 over eth0 followed by eth01 has returned eth0, then none.
C9_Witness ==
    /\ calls.valid
    /\ calls.kind = "name"
    /\ calls.pat = eth0
    /\ \E i, j \in Records :
         /\ i < j
         /\ iface_list[i].name = eth0
         /\ iface_list[j].name = eth01
         /\ calls.results = <<i, 0>>

\* C10: with one cursor since iface_match_init, the calls of
\* iface_match_vif_by_name return the vifs of the records that match the
\* pattern and have a vif >= 0, in the order of the vector, then -1; a match
\* without a vif is skipped and not counted: match_count is the number of
\* records returned.
C10_VifWalkSkipsUnregistered ==
    /\ (calls.valid /\ calls.kind = "vif") =>
         LET S == { i \in Records : /\ NameMatches(calls.pat, iface_list[i].name)
                                    /\ iface_list[i].vif >= 0 }
         IN  /\ calls.results = Returned(S, Len(calls.results))
             /\ state.match_count = Min(Len(calls.results), Cardinality(S))
    /\ last.op = "iface_match_vif_by_name" =>
         last.ret = IF last.arg = 0 THEN -1 ELSE iface_list[last.arg].vif

\* The pattern + over three records, the second without a vif, has returned
\* the vifs of the first and of the third, then -1; match_count is 2.
C10_Witness ==
    /\ calls.valid
    /\ calls.kind = "vif"
    /\ calls.pat = plus
    /\ num_ifaces = 3
    /\ iface_list[1].vif = 1
    /\ iface_list[2].vif = -1
    /\ iface_list[3].vif = 0
    /\ calls.results = <<1, 3, 0>>
    /\ last.op = "iface_match_vif_by_name"
    /\ last.ret = -1
    /\ state.match_count = 2

----------------------------------------------------------------------------
(* Claims about iface_exit *)

Lookups ==
    {"iface_find", "iface_find_by_vif", "iface_find_by_name",
     "iface_match_by_name", "iface_iterator"}

\* iface_init has run and iface_exit has run since.
TornDown == iface_list = <<>> /\ num_ifaces_alloc >= 1

\* C11: after iface_exit the registry holds no records: num_ifaces is 0, and
\* every later iface_find, iface_find_by_vif, iface_find_by_name,
\* iface_match_by_name and iface_iterator returns none and reads nothing
\* through the freed iface_list.
C11_TeardownLeavesNoRecords ==
    TornDown =>
        /\ num_ifaces = 0
        /\ last.op \in Lookups => last.ret = 0 /\ last.ub = "none"

----------------------------------------------------------------------------
(* Claims about names and patterns that are NULL or empty, and about
   match_count *)

NoName == {NULL, <<>>}

\* C12: in every state of the registry, iface_find_by_name of a NULL or empty
\* name finds no record, and iface_match_by_name, iface_match_vif_by_name and
\* iface_match_mif_by_name with a NULL or empty pattern return none (NULL,
\* -1 with *found not written) and leave match_count as it is; such a call
\* changes no record.
C12_NullOrEmptyIsNoMatch ==
    [][ /\ \A q \in NoName :
             LET n == iface_match_by_name(iface_list, num_ifaces, q, state)
                 v == iface_match_vif_by_name(iface_list, num_ifaces, q, state)
                 m == iface_match_mif_by_name(iface_list, num_ifaces, q, state)
             IN  /\ iface_find_by_name(iface_list, num_ifaces, q) = 0
                 /\ n.iface = 0 /\ n.state.match_count = state.match_count
                 /\ v.vif = -1 /\ v.found = 0
                 /\ v.state.match_count = state.match_count
                 /\ m.mif = -1 /\ m.found = 0
                 /\ m.state.match_count = state.match_count
        /\ (/\ last'.name \in NoName
            /\ last'.op \in {"iface_find_by_name", "iface_match_by_name",
                              "iface_match_vif_by_name", "iface_match_mif_by_name"}) =>
               /\ last'.ret = IF last'.op \in {"iface_find_by_name", "iface_match_by_name"}
                               THEN 0 ELSE -1
               /\ last'.arg = 0
               /\ last'.ub = "none"
               /\ storeVars' = storeVars
               /\ state'.match_count = state.match_count ]_vars

\* iface_match_vif_by_name has been called with the empty pattern on three
\* records, one of them with a vif: it has returned -1 and match_count is 0.
C12_Witness ==
    /\ last.op = "iface_match_vif_by_name"
    /\ last.name = <<>>
    /\ last.ret = -1
    /\ num_ifaces = 3
    /\ \E i \in Records : iface_list[i].vif >= 0
    /\ state.match_count = 0

\* C20: whatever the order in which iface_match_by_name,
\* iface_match_vif_by_name and iface_match_mif_by_name are called on one
\* cursor since iface_match_init, match_count is the number of those calls
\* that returned a record, a vif >= 0 or a mif >= 0; it lies between 0 and
\* iter, and the decrement for a skipped record never wraps it around.
C20_MatchCountIsReturned ==
    calls.kind # "none" =>
        /\ state.match_count = calls.returned
        /\ 0 <= state.match_count
        /\ state.match_count <= state.iter
        /\ state.match_count # UINT_MAX

\* The pattern + over three records: iface_match_by_name has returned the
\* first, which has neither vif nor mif; iface_match_mif_by_name has skipped
\* the second and returned the mif of the third; match_count is 2.
C20_Witness ==
    /\ calls.valid
    /\ calls.kind = "mixed"
    /\ calls.pat = plus
    /\ num_ifaces = 3
    /\ iface_list[1].vif = -1 /\ iface_list[1].mif = -1
    /\ iface_list[2].mif = -1
    /\ iface_list[3].mif >= 0
    /\ calls.results = <<1, 3>>
    /\ last.op = "iface_match_mif_by_name"
    /\ last.ret >= 0
    /\ state.iter = 3
    /\ state.match_count = 2

----------------------------------------------------------------------------
(* Claims about iface_iterator *)

\* C16: the calls of one caller since its iface_iterator(1), with no call of
\* another caller and no iface_init in between, return every record once, in
\* the order of the vector, whatever its name, vif or mif, and NULL on every
\* call after that.
C16_PassReturnsEachRecordOnce ==
    \A c \in Callers :
        walk.pass[c].clean =>
            walk.pass[c].results = Returned(Records, Len(walk.pass[c].results))

\* A pass over three records, one of them with a vif, has returned the three
\* in order and then NULL.
C16_Witness ==
    /\ walk.pass["a"].clean
    /\ walk.pass["a"].results = <<1, 2, 3, 0>>
    /\ num_ifaces = 3
    /\ \E i, j \in Records :
         /\ iface_list[i].vif >= 0
         /\ iface_list[j].vif = -1

\* C17: there is one position for all callers: iface_iterator(1), whoever
\* calls it, returns the first record, and iface_iterator(0), whoever calls
\* it, returns the record after the one returned most recently to any
\* caller, or NULL after the last.
C17_OnePositionForAllCallers ==
    [][ last'.op = "iface_iterator" =>
          /\ last'.arg = 1 => last'.ret = IF num_ifaces >= 1 THEN 1 ELSE 0
          /\ last'.arg = 0 =>
               last'.ret = IF walk.recent < num_ifaces THEN walk.recent + 1 ELSE 0 ]_vars

\* Two passes over three records have interleaved with no iface_init in
\* between: caller b got the second record, and the pass of caller a ended
\* with NULL and never returned it.
C17_Witness ==
    /\ num_ifaces = 3
    /\ walk.pass["a"].results = <<1, 3, 0>>
    /\ walk.pass["b"].results = <<1, 2>>
    /\ last.op = "iface_iterator"
    /\ last.name = <<"a">>

MatchOps ==
    {"iface_match_by_name", "iface_match_vif_by_name", "iface_match_mif_by_name"}

Max(a, b) == IF a > b THEN a ELSE b

\* C19: whatever position a cursor or the static i of iface_iterator has,
\* one beyond num_ifaces after iface_init made fewer records included, the
\* three matchers and iface_iterator return no record at a position beyond
\* num_ifaces and move the position over no such record; from a position at
\* or beyond num_ifaces they return none and leave the position; a cursor's
\* iter never decreases.
C19_NoRecordBeyondCount ==
    [][ /\ last'.op \in MatchOps =>
             LET pos == IF last'.op = "iface_match_by_name"
                        THEN last'.ret ELSE last'.arg
             IN  /\ pos <= num_ifaces
                 /\ pos # 0 => state.iter < pos /\ pos <= state'.iter
                 /\ state'.iter >= state.iter
                 /\ state'.iter <= Max(state.iter, num_ifaces)
                 /\ state.iter >= num_ifaces =>
                      /\ pos = 0
                      /\ state' = state
                      /\ last'.op # "iface_match_by_name" => last'.ret = -1
        /\ last'.op = "iface_iterator" =>
             /\ last'.ret <= num_ifaces
             /\ iterator_i' <= Max(iterator_i, num_ifaces)
             /\ (last'.arg = 0 /\ iterator_i >= num_ifaces) =>
                  last'.ret = 0 /\ iterator_i' = iterator_i ]_vars

\* iface_init has made one record where there were two; the cursor and the
\* static i are still at 2, and iface_match_vif_by_name has returned -1.
C19_Witness ==
    /\ num_ifaces = 1
    /\ state.iter = 2
    /\ iterator_i = 2
    /\ last.op = "iface_match_vif_by_name"
    /\ last.ret = -1
    /\ last.arg = 0

============================================================================
